---- MODULE Spec2Model ----
(***************************************************************************)
(* Model of the Hawaii climate API (SurfsUp/app.py): a Flask application   *)
(* with five data routes over two read-only tables, Measurement and        *)
(* Station.  Strings that the code compares, parses or formats (dates,     *)
(* route arguments) are sequences of one-character strings, so that the    *)
(* lexicographic comparison done by the storage engine, strptime's parse   *)
(* and strftime's formatting are computed rather than assumed.  Floats are *)
(* fixed-point integers in hundredths (70.04 is 7004).                     *)
(***************************************************************************)
EXTENDS Integers, Sequences, FiniteSets

VARIABLES Measurement, Station, sessions, request, results, response

vars == <<Measurement, Station, sessions, request, results, response>>

(***************************************************************************)
(* Bounds of the model.                                                    *)
(***************************************************************************)
MaxRows == 3
MaxStationRows == 2
MaxOpen == 2

(***************************************************************************)
(* Characters and strings.                                                 *)
(***************************************************************************)
Digits == {"0", "1", "2", "3", "4", "5", "6", "7", "8", "9"}

\* ord(c) for the characters the model uses (ASCII).
Ord(c) ==
    CASE c = " " -> 32
      [] c = "-" -> 45
      [] c = "/" -> 47
      [] c = "0" -> 48
      [] c = "1" -> 49
      [] c = "2" -> 50
      [] c = "3" -> 51
      [] c = "4" -> 52
      [] c = "5" -> 53
      [] c = "6" -> 54
      [] c = "7" -> 55
      [] c = "8" -> 56
      [] c = "9" -> 57
      [] c = "a" -> 97
      [] c = "b" -> 98
      [] c = "c" -> 99
      [] c = "x" -> 120

DigitVal(c) == Ord(c) - 48

DigitChr(n) ==
    CASE n = 0 -> "0"
      [] n = 1 -> "1"
      [] n = 2 -> "2"
      [] n = 3 -> "3"
      [] n = 4 -> "4"
      [] n = 5 -> "5"
      [] n = 6 -> "6"
      [] n = 7 -> "7"
      [] n = 8 -> "8"
      [] n = 9 -> "9"

\* a < b as the storage engine compares TEXT (binary collation): at the first
\* position where they differ the smaller character decides; a proper prefix
\* is smaller.
RECURSIVE StrLess(_, _)
StrLess(a, b) ==
    IF b = <<>> THEN FALSE
    ELSE IF a = <<>> THEN TRUE
    ELSE IF Head(a) = Head(b) THEN StrLess(Tail(a), Tail(b))
    ELSE Ord(Head(a)) < Ord(Head(b))

StrLeq(a, b) == a = b \/ StrLess(a, b)

(***************************************************************************)
(* The proleptic Gregorian calendar, as datetime and pandas compute it.    *)
(***************************************************************************)
IsLeap(y) == (y % 4 = 0 /\ y % 100 # 0) \/ y % 400 = 0

DaysInMonth(y, m) ==
    IF m = 2 THEN (IF IsLeap(y) THEN 29 ELSE 28)
    ELSE IF m \in {4, 6, 9, 11} THEN 30 ELSE 31

RECURSIVE DaysBeforeMonth(_, _)
DaysBeforeMonth(y, m) ==
    IF m = 1 THEN 0 ELSE DaysBeforeMonth(y, m - 1) + DaysInMonth(y, m - 1)

DaysBeforeYear(y) ==
    365 * (y - 1) + ((y - 1) \div 4) - ((y - 1) \div 100) + ((y - 1) \div 400)

\* The day number of y-m-d (0001-01-01 is day 1).
ToOrdinal(y, m, d) == DaysBeforeYear(y) + DaysBeforeMonth(y, m) + d

\* The inverse of ToOrdinal: <<year, month, day>> of day number n.
FromOrdinal(n) ==
    LET n0 == n - 1
        n400 == n0 \div 146097
        r400 == n0 % 146097
        n100 == r400 \div 36524
        r100 == r400 % 36524
        n4 == r100 \div 1461
        r4 == r100 % 1461
        n1 == r4 \div 365
        r1 == r4 % 365
        y == n400 * 400 + 1 + n100 * 100 + n4 * 4 + n1
    IN  IF n1 = 4 \/ n100 = 4 THEN <<y - 1, 12, 31>>
        ELSE LET m == CHOOSE k \in 1..12 :
                          /\ DaysBeforeMonth(y, k) <= r1
                          /\ r1 < DaysBeforeMonth(y, k) + DaysInMonth(y, k)
             IN  <<y, m, r1 - DaysBeforeMonth(y, m) + 1>>

\* The number written by a string of decimal digits.
RECURSIVE DecVal(_)
DecVal(s) ==
    IF s = <<>> THEN 0
    ELSE DecVal(SubSeq(s, 1, Len(s) - 1)) * 10 + DigitVal(s[Len(s)])

Pad2(n) == <<DigitChr(n \div 10), DigitChr(n % 10)>>

Pad4(n) == <<DigitChr(n \div 1000), DigitChr((n \div 100) % 10)>> \o Pad2(n % 100)

\* pd.to_datetime on a stored date: the table holds YYYY-MM-DD text.
to_datetime(s) ==
    <<DecVal(SubSeq(s, 1, 4)), DecVal(SubSeq(s, 6, 7)), DecVal(SubSeq(s, 9, 10))>>

\* strftime('%Y-%m-%d').
strftime(t) == Pad4(t[1]) \o <<"-">> \o Pad2(t[2]) \o <<"-">> \o Pad2(t[3])

(***************************************************************************)
(* is_valid_date: datetime.strptime(date_str, '%Y-%m-%d') raises           *)
(* ValueError or not.  strptime compiles the format to the regular         *)
(* expression                                                              *)
(*   (?P<Y>\d\d\d\d)-(?P<m>1[0-2]|0[1-9]|[1-9])-                           *)
(*   (?P<d>3[0-1]|[1-2]\d|0[1-9]|[1-9]| [1-9])                             *)
(* matches it at the start of the string (alternatives tried in order,     *)
(* with backtracking), raises ValueError when nothing matches or when      *)
(* unconverted data remains after the match, and then builds the date,     *)
(* which raises ValueError for a year of 0 or a day the month lacks.       *)
(***************************************************************************)
At(s, i) == IF i >= 1 /\ i <= Len(s) THEN s[i] ELSE ""

MonthAlt(s, i, k) ==
    CASE k = 1 -> At(s, i) = "1" /\ At(s, i + 1) \in {"0", "1", "2"}
      [] k = 2 -> At(s, i) = "0" /\ At(s, i + 1) \in Digits \ {"0"}
      [] k = 3 -> At(s, i) \in Digits \ {"0"}

MonthAltLen(k) == IF k = 3 THEN 1 ELSE 2

DayAlt(s, j, k) ==
    CASE k = 1 -> At(s, j) = "3" /\ At(s, j + 1) \in {"0", "1"}
      [] k = 2 -> At(s, j) \in {"1", "2"} /\ At(s, j + 1) \in Digits
      [] k = 3 -> At(s, j) = "0" /\ At(s, j + 1) \in Digits \ {"0"}
      [] k = 4 -> At(s, j) \in Digits \ {"0"}
      [] k = 5 -> At(s, j) = " " /\ At(s, j + 1) \in Digits \ {"0"}

DayAltLen(k) == IF k = 4 THEN 1 ELSE 2

\* The pairs (month alternative, day alternative) with which the whole
\* expression matches at the start of s.
StrptimeMatches(s) ==
    IF ~ (/\ \A i \in 1..4 : At(s, i) \in Digits
          /\ At(s, 5) = "-")
    THEN {}
    ELSE {p \in (1..3) \X (1..5) :
            /\ MonthAlt(s, 6, p[1])
            /\ At(s, 6 + MonthAltLen(p[1])) = "-"
            /\ DayAlt(s, 7 + MonthAltLen(p[1]), p[2])}

\* The match the regular expression engine returns: the first in the order of
\* the alternatives.
StrptimeFirst(s) ==
    CHOOSE p \in StrptimeMatches(s) :
        \A q \in StrptimeMatches(s) :
            p[1] < q[1] \/ (p[1] = q[1] /\ p[2] <= q[2])

\* strip(' ') of the day group is what int() does with " 3".
StrptimeFields(s) ==
    LET p == StrptimeFirst(s)
        ml == MonthAltLen(p[1])
        dl == DayAltLen(p[2])
        dtxt == SubSeq(s, 7 + ml, 6 + ml + dl)
    IN  [year |-> DecVal(SubSeq(s, 1, 4)),
         month |-> DecVal(SubSeq(s, 6, 5 + ml)),
         day |-> DecVal(IF dtxt[1] = " " THEN Tail(dtxt) ELSE dtxt),
         end |-> 6 + ml + dl]

is_valid_date(date_str) ==
    /\ StrptimeMatches(date_str) # {}
    /\ LET f == StrptimeFields(date_str)
       IN  /\ f.end = Len(date_str)
           /\ f.year >= 1
           /\ f.day <= DaysInMonth(f.year, f.month)

(***************************************************************************)
(* Responses.  raised names the exception that left the view function      *)
(* ("none" when the view returned); Flask turns an HTTPException into its  *)
(* HTML error page and any other exception into a 500 page.                *)
(***************************************************************************)
NoRequest == [route |-> "none", start |-> <<>>, end |-> <<>>]

NoResponse == [status |-> 0, mimetype |-> "none", body |-> <<>>, raised |-> "none"]

jsonify(status, body) ==
    [status |-> status, mimetype |-> "application/json", body |-> body,
     raised |-> "none"]

\* except SQLAlchemyError as e: return jsonify({"error": str(e)}), 500
StorageError == jsonify(500, [error |-> "SQLAlchemyError"])

\* abort(400, description=...): werkzeug's BadRequest leaves the view.
abort(status, description) ==
    [status |-> status, mimetype |-> "text/html", body |-> description,
     raised |-> "BadRequest"]

\* None[0]: a TypeError, which no except clause of the view catches.
TypeErrorPage ==
    [status |-> 500, mimetype |-> "text/html", body |-> "TypeError",
     raised |-> "TypeError"]

InvalidDateMsg == "Invalid date format. Use YYYY-MM-DD."

NoDataStartMsg == "No data found for the given start date."

NoDataRangeMsg == "No data found for the given date range."

(***************************************************************************)
(* Queries.                                                                *)
(***************************************************************************)
\* NULL and a value v of a nullable column.
NULL == <<>>

Val(v) == <<v>>

RowIds(table) == 1..Len(table)

\* query(Measurement.date).order_by(Measurement.date.desc()).first(): the row
\* holding the greatest date (any of them: they hold the same date).
most_recent_day(table) ==
    LET i == CHOOSE i \in RowIds(table) :
                 \A j \in RowIds(table) : StrLeq(table[j].date, table[i].date)
    IN  table[i].date

DaysBack == 365

\* (pd.to_datetime(day) - pd.Timedelta(days=365)).strftime('%Y-%m-%d')
twelve_month_prior_str(day) ==
    LET t == to_datetime(day)
    IN  strftime(FromOrdinal(ToOrdinal(t[1], t[2], t[3]) - DaysBack))

\* The orders in which a query may return the rows ids under
\* ORDER BY Measurement.date: ascending by date, rows of one date in any order.
OrderByDate(table, ids) ==
    {f \in [1..Cardinality(ids) -> ids] :
        /\ \A a, b \in 1..Cardinality(ids) : a # b => f[a] # f[b]
        /\ \A a \in 1..(Cardinality(ids) - 1) :
               StrLeq(table[f[a]].date, table[f[a + 1]].date)}

\* A fault of FromCutoff: a strict comparison, which drops the cutoff date.
FromCutoffStrict(table, cutoff) ==
    {i \in RowIds(table) : StrLess(cutoff, table[i].date)}

\* filter(Measurement.date >= cutoff)
FromCutoff(table, cutoff) ==
    {i \in RowIds(table) : StrLeq(cutoff, table[i].date)}

\* A fault of precip_dict: the first row of a date is kept.
precip_dict_first(rs) ==
    [d \in {rs[k][1] : k \in 1..Len(rs)} |->
        LET first == CHOOSE k \in 1..Len(rs) :
                         /\ rs[k][1] = d
                         /\ \A j \in 1..Len(rs) : rs[j][1] = d => k <= j
        IN  rs[first][2]]

\* {result[0]: result[1] for result in results}: a later row replaces an
\* earlier one of the same key.
precip_dict(rs) ==
    [d \in {rs[k][1] : k \in 1..Len(rs)} |->
        LET last == CHOOSE k \in 1..Len(rs) :
                        /\ rs[k][1] = d
                        /\ \A j \in 1..Len(rs) : rs[j][1] = d => j <= k
        IN  rs[last][2]]

\* func.count(Measurement.station) of a group.
StationCount(table, s) == Cardinality({i \in RowIds(table) : table[i].station = s})

\* A fault of most_active_stations: ascending order, the least active first.
least_active_stations(table) ==
    {s \in {table[i].station : i \in RowIds(table)} :
        \A i \in RowIds(table) :
            StationCount(table, s) <= StationCount(table, table[i].station)}

\* group_by(station).order_by(count.desc()).first(): the stations one of which
\* comes first.
most_active_stations(table) ==
    {s \in {table[i].station : i \in RowIds(table)} :
        \A i \in RowIds(table) :
            StationCount(table, table[i].station) <= StationCount(table, s)}

\* func.min, func.max over the rows ids (a non-empty set).
MinTobs(table, ids) ==
    LET i == CHOOSE i \in ids : \A j \in ids : table[i].tobs <= table[j].tobs
    IN  table[i].tobs

MaxTobs(table, ids) ==
    LET i == CHOOSE i \in ids : \A j \in ids : table[j].tobs <= table[i].tobs
    IN  table[i].tobs

RECURSIVE SumTobs(_, _)
SumTobs(table, ids) ==
    IF ids = {} THEN 0
    ELSE LET i == CHOOSE i \in ids : TRUE
         IN  table[i].tobs + SumTobs(table, ids \ {i})

\* round(x, digits) of the storage engine for x = num / den hundredths
\* (den > 0): to the nearest multiple of 10^-digits, halves away from zero.
\* unit is 10^-digits in hundredths (10 for one decimal place).
RoundTo(num, den, unit) ==
    IF num >= 0 THEN ((2 * num + unit * den) \div (2 * unit * den)) * unit
    ELSE - (((2 * (- num) + unit * den) \div (2 * unit * den)) * unit)

\* A fault of RoundAvg: round() without its digits argument.
RoundAvgNoDigits(table, ids) == RoundTo(SumTobs(table, ids), Cardinality(ids), 100)

\* func.round(func.avg(Measurement.tobs), 1)
RoundAvg(table, ids) == RoundTo(SumTobs(table, ids), Cardinality(ids), 10)

\* The view's tail shared by start and start_end: the one aggregate row.
StatsResponse(table, ids, nodata) ==
    IF ids = {} THEN jsonify(404, [error |-> nodata])
    ELSE jsonify(200, [TMIN |-> MinTobs(table, ids),
                       TAVG |-> RoundAvg(table, ids),
                       TMAX |-> MaxTobs(table, ids)])

(***************************************************************************)
(* Sessions: Session(engine) opens one, session.close() closes one.        *)
(* sessions counts the sessions opened and not closed.                     *)
(***************************************************************************)
Session(n) == n + 1

close(n) == n - 1

Req(route, s, e) == [route |-> route, start |-> s, end |-> e]

(***************************************************************************)
(* The routes.  fault is the storage layer raising SQLAlchemyError in the  *)
(* view's first query.                                                     *)
(***************************************************************************)
home ==
    /\ request' = Req("home", <<>>, <<>>)
    /\ response' = [status |-> 200, mimetype |-> "text/html",
                    body |-> "Welcome to the Hawaii Climate Analysis API!",
                    raised |-> "none"]
    /\ results' = <<>>
    /\ UNCHANGED <<Measurement, Station, sessions>>

precipitation ==
    /\ request' = Req("precipitation", <<>>, <<>>)
    /\ \E fault \in BOOLEAN :
         IF fault
         THEN results' = <<>> /\ response' = StorageError
         ELSE IF Measurement = <<>>
         THEN results' = <<>> /\ response' = TypeErrorPage
         ELSE LET cutoff == twelve_month_prior_str(most_recent_day(Measurement))
              IN  \E f \in OrderByDate(Measurement, FromCutoff(Measurement, cutoff)) :
                    /\ results' = [k \in DOMAIN f |->
                                     <<Measurement[f[k]].date, Measurement[f[k]].prcp>>]
                    /\ response' = jsonify(200, precip_dict(results'))
    /\ sessions' = close(Session(sessions))
    /\ UNCHANGED <<Measurement, Station>>

stations ==
    /\ request' = Req("stations", <<>>, <<>>)
    /\ \E fault \in BOOLEAN :
         IF fault
         THEN results' = <<>> /\ response' = StorageError
         ELSE /\ results' = [k \in RowIds(Station) |-> <<Station[k]>>]
              /\ response' = jsonify(200, [k \in DOMAIN results' |-> results'[k][1]])
    /\ sessions' = close(Session(sessions))
    /\ UNCHANGED <<Measurement, Station>>

tobs ==
    /\ request' = Req("tobs", <<>>, <<>>)
    /\ \E fault \in BOOLEAN :
         IF fault
         THEN results' = <<>> /\ response' = StorageError
         ELSE IF Measurement = <<>>
         THEN results' = <<>> /\ response' = TypeErrorPage
         ELSE \E most_active_station \in most_active_stations(Measurement) :
                LET cutoff == twelve_month_prior_str(most_recent_day(Measurement))
                    ids == {i \in FromCutoff(Measurement, cutoff) :
                               Measurement[i].station = most_active_station}
                IN  \E f \in OrderByDate(Measurement, ids) :
                      /\ results' = [k \in DOMAIN f |->
                                       <<Measurement[f[k]].date, Measurement[f[k]].tobs>>]
                      /\ response' = jsonify(200,
                             [k \in DOMAIN results' |->
                                 [date |-> results'[k][1],
                                  temperature |-> results'[k][2]]])
    /\ sessions' = close(Session(sessions))
    /\ UNCHANGED <<Measurement, Station>>

start(s) ==
    /\ request' = Req("start", s, <<>>)
    /\ results' = <<>>
    /\ IF ~ is_valid_date(s)
       THEN /\ sessions < MaxOpen
            /\ response' = abort(400, InvalidDateMsg)
            /\ sessions' = Session(sessions)
       ELSE /\ \E fault \in BOOLEAN :
                 IF fault
                 THEN response' = StorageError
                 ELSE response' =
                        StatsResponse(Measurement,
                            {i \in RowIds(Measurement) : StrLeq(s, Measurement[i].date)},
                            NoDataStartMsg)
            /\ sessions' = close(Session(sessions))
    /\ UNCHANGED <<Measurement, Station>>

start_end(s, e) ==
    /\ request' = Req("start_end", s, e)
    /\ results' = <<>>
    /\ IF ~ is_valid_date(s) \/ ~ is_valid_date(e)
       THEN /\ sessions < MaxOpen
            /\ response' = abort(400, InvalidDateMsg)
            /\ sessions' = Session(sessions)
       ELSE /\ \E fault \in BOOLEAN :
                 IF fault
                 THEN response' = StorageError
                 ELSE response' =
                        StatsResponse(Measurement,
                            {i \in RowIds(Measurement) :
                                /\ StrLeq(s, Measurement[i].date)
                                /\ StrLeq(Measurement[i].date, e)},
                            NoDataRangeMsg)
            /\ sessions' = close(Session(sessions))
    /\ UNCHANGED <<Measurement, Station>>

(***************************************************************************)
(* Strings used as stored dates and as route arguments.                    *)
(***************************************************************************)
\* "2016-08-22"
D_2016_08_22 == <<"2", "0", "1", "6", "-", "0", "8", "-", "2", "2">>

\* "2016-08-23"
D_2016_08_23 == <<"2", "0", "1", "6", "-", "0", "8", "-", "2", "3">>

\* "2017-08-23"
D_2017_08_23 == <<"2", "0", "1", "7", "-", "0", "8", "-", "2", "3">>

\* "2016-02-29"
D_2016_02_29 == <<"2", "0", "1", "6", "-", "0", "2", "-", "2", "9">>

\* "2017-08-02"
D_2017_08_02 == <<"2", "0", "1", "7", "-", "0", "8", "-", "0", "2">>

\* "2020-01-01"
D_2020_01_01 == <<"2", "0", "2", "0", "-", "0", "1", "-", "0", "1">>

\* "2017-8-1"
A_2017_8_1 == <<"2", "0", "1", "7", "-", "8", "-", "1">>

\* "2017-8-3"
A_2017_8_3 == <<"2", "0", "1", "7", "-", "8", "-", "3">>

\* "2017-08-3"
A_2017_08_3 == <<"2", "0", "1", "7", "-", "0", "8", "-", "3">>

\* "2017-08- 3"
A_2017_08_sp3 == <<"2", "0", "1", "7", "-", "0", "8", "-", " ", "3">>

\* "2017-13-01"
A_2017_13_01 == <<"2", "0", "1", "7", "-", "1", "3", "-", "0", "1">>

\* "08-23-2017"
A_08_23_2017 == <<"0", "8", "-", "2", "3", "-", "2", "0", "1", "7">>

\* "2017/08/23"
A_2017s08s23 == <<"2", "0", "1", "7", "/", "0", "8", "/", "2", "3">>

\* ""
A_empty == <<>>

\* "2017-02-29"
A_2017_02_29 == <<"2", "0", "1", "7", "-", "0", "2", "-", "2", "9">>

\* "2017-04-31"
A_2017_04_31 == <<"2", "0", "1", "7", "-", "0", "4", "-", "3", "1">>

\* "2017-ab-01"
A_2017_ab_01 == <<"2", "0", "1", "7", "-", "a", "b", "-", "0", "1">>

\* " 2017-08-23"
A_sp2017_08_23 == <<" ", "2", "0", "1", "7", "-", "0", "8", "-", "2", "3">>

\* "2017-08-23x"
A_2017_08_23x == <<"2", "0", "1", "7", "-", "0", "8", "-", "2", "3", "x">>

\* "0000-01-01"
A_0000_01_01 == <<"0", "0", "0", "0", "-", "0", "1", "-", "0", "1">>

\* "abc"
A_abc == <<"a", "b", "c">>

(***************************************************************************)
(* Tables and arguments the specifications draw from.                      *)
(***************************************************************************)
SeqsUpTo(S, n) == UNION {[1..k -> S] : k \in 0..n}

StationIds == {"USC00519281", "USC00519397"}

\* Arguments that strptime accepts, in and out of the YYYY-MM-DD form.
AcceptedArgs == {D_2017_08_02, D_2020_01_01, A_2017_8_1}

\* Arguments of every shape the validator meets.
AllArgs ==
    {D_2017_08_23, D_2016_02_29, D_2020_01_01, A_2017_8_3, A_2017_08_3,
     A_2017_08_sp3, A_2017_13_01, A_08_23_2017, A_2017s08s23, A_empty,
     A_2017_02_29, A_2017_04_31, A_2017_ab_01, A_sp2017_08_23, A_2017_08_23x,
     A_0000_01_01, A_abc}

\* Rows of the service specification: the five routes over small tables.
ServiceRows ==
    {[station |-> "USC00519281", date |-> D_2017_08_23, prcp |-> Val(8), tobs |-> 7100],
     [station |-> "USC00519397", date |-> D_2016_08_22, prcp |-> NULL, tobs |-> 6510]}

ServiceArgs == {D_2017_08_23, A_2017_8_3, A_abc}

\* Rows of the validator specification.
ValidateRows ==
    {[station |-> "USC00519281", date |-> D_2017_08_23, prcp |-> Val(8), tobs |-> 7100]}

\* Rows of the precipitation specification.
PrcpRows ==
    [station : StationIds,
     date : {D_2016_08_22, D_2016_08_23, D_2017_08_23},
     prcp : {NULL, Val(8)},
     tobs : {7100}]

\* Rows of the temperature-observation specification.
TobsRows ==
    [station : StationIds,
     date : {D_2016_08_22, D_2016_08_23, D_2017_08_23},
     prcp : {NULL},
     tobs : {6510, 7100}]

\* Rows of the statistics specification.
StatsRows ==
    [station : {"USC00519281"},
     date : {D_2016_08_23, D_2017_08_23},
     prcp : {NULL},
     tobs : {6510, 7004, 7100}]

InitWith(rows, stationRows) ==
    /\ Measurement \in SeqsUpTo(rows, MaxRows)
    /\ Station \in SeqsUpTo(StationIds, stationRows)
    /\ sessions = 0
    /\ request = NoRequest
    /\ results = <<>>
    /\ response = NoResponse

(***************************************************************************)
(* Specifications.                                                         *)
(***************************************************************************)
Init == InitWith(ServiceRows, MaxStationRows)

Next ==
    \/ home
    \/ precipitation
    \/ stations
    \/ tobs
    \/ \E s \in ServiceArgs : start(s)
    \/ \E s, e \in ServiceArgs : start_end(s, e)

Spec == Init /\ [][Next]_vars

\* The validator on arguments of every shape.
InitValidate == InitWith(ValidateRows, 0)

NextValidate ==
    \/ \E s \in AllArgs : start(s)
    \/ \E s, e \in AllArgs : start_end(s, e)

SpecValidate == InitValidate /\ [][NextValidate]_vars

\* The statistics routes on accepted arguments.
InitStats == InitWith(StatsRows, 0)

NextStats ==
    \/ \E s \in AcceptedArgs : start(s)
    \/ \E s, e \in AcceptedArgs : start_end(s, e)

SpecStats == InitStats /\ [][NextStats]_vars

\* The precipitation route.
InitPrcp == InitWith(PrcpRows, 0)

SpecPrcp == InitPrcp /\ [][precipitation]_vars

\* The temperature-observation route.
InitTobs == InitWith(TobsRows, 0)

SpecTobs == InitTobs /\ [][tobs]_vars

(***************************************************************************)
(* Vocabulary of the properties: calendar dates, independent of how the    *)
(* text of a date compares.                                                *)
(***************************************************************************)
\* The day number of a stored date.
DateOrd(d) == LET t == to_datetime(d) IN ToOrdinal(t[1], t[2], t[3])

\* The day number of an argument the validator accepted.
ArgOrd(s) == LET f == StrptimeFields(s) IN ToOrdinal(f.year, f.month, f.day)

\* Exactly YYYY-MM-DD, naming a day of the calendar.
IsIsoDate(s) ==
    /\ Len(s) = 10
    /\ \A i \in {1, 2, 3, 4, 6, 7, 9, 10} : s[i] \in Digits
    /\ s[5] = "-" /\ s[8] = "-"
    /\ LET t == to_datetime(s)
       IN  /\ t[1] >= 1
           /\ t[2] \in 1..12
           /\ t[3] >= 1 /\ t[3] <= DaysInMonth(t[1], t[2])

Answered(route, status) == request.route = route /\ response.status = status

\* The day number of the latest observation.
LastDay ==
    CHOOSE n \in {DateOrd(Measurement[i].date) : i \in RowIds(Measurement)} :
        \A i \in RowIds(Measurement) : DateOrd(Measurement[i].date) <= n

\* The rows dated within 365 days of the latest observation.
Window ==
    LET last == LastDay
    IN  {i \in RowIds(Measurement) : DateOrd(Measurement[i].date) >= last - 365}

(***************************************************************************)
(* C1.  After every request the session it opened is closed: no session    *)
(* remains open.                                                           *)
(***************************************************************************)
C1_NoSessionLeftOpen == sessions = 0

(***************************************************************************)
(* C2.  Every error outcome is returned by the view as a JSON envelope     *)
(* {"error": <string>} with status 400, 404 or 500; no exception leaves    *)
(* the view.                                                               *)
(***************************************************************************)
C2_ErrorsAreJsonEnvelopes ==
    response.status \notin {0, 200} =>
        /\ response.raised = "none"
        /\ response.mimetype = "application/json"
        /\ response.status \in {400, 404, 500}
        /\ DOMAIN response.body = {"error"}

(***************************************************************************)
(* C3.  The validator accepts exactly the strings of the form YYYY-MM-DD   *)
(* that name a calendar date: get_stats_from answers 400 if and only if    *)
(* its argument is not such a string; get_stats_range likewise.            *)
(***************************************************************************)
C3_ValidatorAcceptsExactlyIsoDates ==
    /\ request.route = "start" =>
          (response.status = 400 <=> ~ IsIsoDate(request.start))
    /\ request.route = "start_end" =>
          (response.status = 400 <=>
              ~ (IsIsoDate(request.start) /\ IsIsoDate(request.end)))

(***************************************************************************)
(* C4.  get_stats_range with validated arguments of which start is a later *)
(* day than end answers 404 "No data found for the given date range."      *)
(* (unless the storage layer fails).                                       *)
(***************************************************************************)
C4_ReversedRangeIsNotFound ==
    (/\ request.route = "start_end"
     /\ response.status \notin {400, 500}
     /\ ArgOrd(request.start) > ArgOrd(request.end))
    => response = jsonify(404, [error |-> NoDataRangeMsg])

(***************************************************************************)
(* C5 as stated.  A 200 answer of get_stats_from has                       *)
(* TMIN <= TAVG <= TMAX.                                                   *)
(***************************************************************************)
C5_AvgBetweenMinAndMax ==
    Answered("start", 200) =>
        /\ response.body.TMIN <= response.body.TAVG
        /\ response.body.TAVG <= response.body.TMAX

(***************************************************************************)
(* C5 amended.  A 200 answer of get_stats_from has TAVG within 0.05 of the *)
(* interval [TMIN, TMAX]; TMIN <= TAVG when TMIN has at most one decimal   *)
(* place, and TAVG <= TMAX when TMAX has at most one decimal place.        *)
(***************************************************************************)
C5_AvgBetweenRoundedMinAndMax ==
    Answered("start", 200) =>
        /\ response.body.TMIN - 5 <= response.body.TAVG
        /\ response.body.TAVG <= response.body.TMAX + 5
        /\ response.body.TMIN % 10 = 0 => response.body.TMIN <= response.body.TAVG
        /\ response.body.TMAX % 10 = 0 => response.body.TAVG <= response.body.TMAX

C5_Witness ==
    /\ Answered("start", 200)
    /\ response.body.TMIN % 10 = 0
    /\ response.body.TMAX % 10 = 0
    /\ response.body.TMIN < response.body.TAVG
    /\ response.body.TAVG < response.body.TMAX
    /\ \E i \in RowIds(Measurement) : Measurement[i].tobs % 10 # 0

(***************************************************************************)
(* C6.  The keys of the precipitation answer are exactly the dates of the  *)
(* observations dated on or after the day 365 days before the latest       *)
(* observation: none earlier, and the cutoff day itself included.          *)
(***************************************************************************)
C6_KeysAreTheWindowDates ==
    Answered("precipitation", 200) =>
        LET window == Window
        IN  DOMAIN response.body = {Measurement[i].date : i \in window}

C6_Witness ==
    /\ Answered("precipitation", 200)
    /\ \E i, j, k \in RowIds(Measurement) :
         /\ Measurement[i].date = D_2017_08_23
         /\ Measurement[j].date = D_2016_08_23
         /\ Measurement[k].date = D_2016_08_22
    /\ D_2016_08_23 \in DOMAIN response.body
    /\ D_2016_08_22 \notin DOMAIN response.body

(***************************************************************************)
(* C7.  The stations answer has no duplicates and its elements are the     *)
(* distinct station identifiers of the Station table.                      *)
(***************************************************************************)
C7_StationsAreDistinct ==
    Answered("stations", 200) =>
        /\ \A a, b \in DOMAIN response.body :
               response.body[a] = response.body[b] => a = b
        /\ {response.body[a] : a \in DOMAIN response.body}
              = {Station[k] : k \in RowIds(Station)}

(***************************************************************************)
(* C8.  get_stats_from with a validated start answers 404 "No data found   *)
(* for the given start date." if and only if no observation is dated on or *)
(* after start; otherwise 200 with TMIN and TMAX the least and greatest    *)
(* temperature of the observations dated on or after start (unless the     *)
(* storage layer fails).                                                   *)
(***************************************************************************)
C8_NotFoundIffNothingFromStart ==
    (request.route = "start" /\ response.status \notin {400, 500}) =>
        LET ids == {i \in RowIds(Measurement) :
                       DateOrd(Measurement[i].date) >= ArgOrd(request.start)}
        IN  IF ids = {}
            THEN response = jsonify(404, [error |-> NoDataStartMsg])
            ELSE /\ response.status = 200
                 /\ \A i \in ids : /\ response.body.TMIN <= Measurement[i].tobs
                                   /\ Measurement[i].tobs <= response.body.TMAX
                 /\ \E i \in ids : response.body.TMIN = Measurement[i].tobs
                 /\ \E i \in ids : response.body.TMAX = Measurement[i].tobs

(***************************************************************************)
(* C9.  In the precipitation answer every date of the query result is a    *)
(* key, and the value of a date is the precipitation of the last row of    *)
(* that date in the date-ascending query result, null included.            *)
(***************************************************************************)
C9_LastRowOfADateWins ==
    Answered("precipitation", 200) =>
        /\ \A k \in 1..(Len(results) - 1) :
               DateOrd(results[k][1]) <= DateOrd(results[k + 1][1])
        /\ \A k \in 1..Len(results) :
               /\ results[k][1] \in DOMAIN response.body
               /\ (\A j \in (k + 1)..Len(results) : results[j][1] # results[k][1])
                     => response.body[results[k][1]] = results[k][2]

C9_Witness ==
    /\ Answered("precipitation", 200)
    /\ \E i, j \in RowIds(Measurement) :
         /\ Measurement[i].date = Measurement[j].date
         /\ Measurement[i].station # Measurement[j].station
    /\ \E k, j \in 1..Len(results) :
         /\ k < j
         /\ results[k][1] = results[j][1]
         /\ results[k][2] # NULL
         /\ results[j][2] = NULL
         /\ response.body[results[k][1]] = NULL

(***************************************************************************)
(* C10.  The tobs answer lists, in date-ascending order, one object for    *)
(* each observation of one station of maximal row count that is dated on   *)
(* or after the cutoff day, rows of one date all kept, and nothing else.   *)
(***************************************************************************)
C10_RowsOfAMostActiveStation ==
    Answered("tobs", 200) =>
        LET window == Window
            body == response.body
        IN  /\ \A k \in 1..(Len(body) - 1) :
                   DateOrd(body[k].date) <= DateOrd(body[k + 1].date)
            /\ \E s \in {Measurement[i].station : i \in RowIds(Measurement)} :
                 LET rows == {i \in window : Measurement[i].station = s}
                 IN  /\ \A i \in RowIds(Measurement) :
                            StationCount(Measurement, Measurement[i].station)
                                <= StationCount(Measurement, s)
                     /\ Len(body) = Cardinality(rows)
                     /\ \A i \in rows :
                            Cardinality({k \in DOMAIN body :
                                            /\ body[k].date = Measurement[i].date
                                            /\ body[k].temperature = Measurement[i].tobs})
                            = Cardinality({j \in rows :
                                            /\ Measurement[j].date = Measurement[i].date
                                            /\ Measurement[j].tobs = Measurement[i].tobs})

C10_Witness ==
    /\ Answered("tobs", 200)
    /\ Len(response.body) = 2
    /\ response.body[1].date = response.body[2].date
    /\ \E i \in RowIds(Measurement) :
         /\ Measurement[i].station # Measurement[1].station
         /\ i \in Window

====
